---------------------------- MODULE Spec2Model ----------------------------
(***************************************************************************)
(* A model of rust_project_to_kzip.go: the converter from a                *)
(* rust-project.json manifest to a kzip of Kythe compilation units.        *)
(*                                                                         *)
(* Paths are TLA+ strings, so prefix tests and extension extraction are    *)
(* computed character by character, as the Go code computes them.         *)
(* A Go slice is a sequence, a Go map a function whose DOMAIN is the set   *)
(* of keys present; the iteration order of `range` over a map is a         *)
(* nondeterministic choice among all orders of its keys.                   *)
(* A value that a definition uses many times is bound once, as the only    *)
(* element of a set: CHOOSE out \in {e(x) : x \in {v}} : TRUE is e(v).      *)
(***************************************************************************)
EXTENDS Integers, Sequences, FiniteSets, TLC

VARIABLES
    pc,                  \* position of the running function
    exitCode,            \* process exit status; -1 while running
    manifest,            \* decoded content of rust-project.json (input)
    unreadable,          \* files whose vfs.Open / AddFile fails (filesystem state)
    projectRoot,         \* os.Args[3], normalised
    crates,              \* main: crates
    crate_deps,          \* main: crate_deps, getTransitiveDependencies: crate_deps
    transitiveDeps,      \* main: transitiveDeps
    source_include_dirs, \* main: source_include_dirs
    source_exclude_dirs, \* main: source_exclude_dirs
    idx,                 \* main: position of the `for _, crate := range crates` loop
    i,                   \* main: i, the count of written units
    units,               \* units the kzip writer accepted, in order
    addFailed,           \* positions of the crates whose AddUnit failed (diagnostics)
    run,                 \* which run of the tool this is (1 or 2)
    prevUnits,           \* units written by the previous run
    prevAddFailed,       \* addFailed of the previous run
    bfsCrate,            \* getTransitiveDependencies: crate.CrateId
    queue,               \* getTransitiveDependencies: queue
    visited,             \* getTransitiveDependencies: keys of visited
    enqueued,            \* every id appended to queue so far, in order
    result,              \* getTransitiveDependencies: the returned slice
    include_dirs,        \* getSourceFiles: include_dirs
    exclude_dirs,        \* getSourceFiles: exclude_dirs
    source_files,        \* getSourceFiles: returned paths
    required_inputs,     \* getSourceFiles: *required_inputs
    err                  \* getSourceFiles: returned error (TRUE = non-nil)

vars == <<pc, exitCode, manifest, unreadable, projectRoot, crates, crate_deps,
          transitiveDeps, source_include_dirs, source_exclude_dirs, idx, i,
          units, addFailed, run, prevUnits, prevAddFailed, bfsCrate, queue,
          visited, enqueued, result, include_dirs, exclude_dirs, source_files,
          required_inputs, err>>

---------------------------------------------------------------------------
(* Bounds of the model *)

\* Crates in a manifest: 0..MaxCrates.
MaxCrates == 3
\* Dependency edges in a manifest, all crates together.
MaxEdges == 2
\* Crate ids the standalone traversal draws its graph from: 0..BfsMaxId.
BfsMaxId == 2
\* Dependency edges of the standalone traversal's graph, all ids together.
BfsMaxEdges == 3
\* Length of the include and of the exclude list of a standalone collection.
MaxDirs == 2

---------------------------------------------------------------------------
(* Generic helpers *)

Range(s) == {s[k] : k \in DOMAIN s}

NoDuplicates(s) == \A a, b \in DOMAIN s : a # b => s[a] # s[b]

\* All sequences without repetition that list exactly the set S.
RECURSIVE Orders(_)
Orders(S) ==
    IF S = {} THEN {<<>>}
    ELSE UNION {{<<x>> \o s : s \in Orders(S \ {x})} : x \in S}

\* All sequences over S of length 0..n.
SeqsUpTo(S, n) == UNION {[1..k -> S] : k \in 0..n}

\* m[k] of a Go map: the zero value (a nil slice) when the key is absent.
Lookup(m, k) == IF k \in DOMAIN m THEN m[k] ELSE <<>>

\* m[k] = v of a Go map.
Store(m, k, v) == [x \in DOMAIN m \cup {k} |-> IF x = k THEN v ELSE m[x]]

EmptyMap == [x \in {} |-> <<>>]

---------------------------------------------------------------------------
(* The filesystem: a fixed tree.  Files are listed in the order vfs.Walk   *)
(* visits them (lexical within each directory).                            *)

Files == << "/o/v.rs", "/r/a/x.rs", "/r/a/y.md", "/r/ab/z.rs", "/r/b/w.rs", "/r/c/u.rs" >>

FileSet == Range(Files)

\* strings.HasPrefix, which filepath.HasPrefix is on Unix.
HasPrefix(s, prefix) == Len(s) >= Len(prefix) /\ SubSeq(s, 1, Len(prefix)) = prefix

\* filepath.Ext: the suffix from the last dot of the last path element.
RECURSIVE ExtFrom(_, _)
ExtFrom(path, k) ==
    IF k < 1 \/ SubSeq(path, k, k) = "/" THEN ""
    ELSE IF SubSeq(path, k, k) = "." THEN SubSeq(path, k, Len(path))
    ELSE ExtFrom(path, k - 1)

Ext(path) == ExtFrom(path, Len(path))

\* The file lies in the tree rooted at directory dir.
Under(dir, f) == HasPrefix(f, dir \o "/")

DirExists(dir) == \E f \in FileSet : Under(dir, f)

\* The files vfs.Walk passes to its callback for root dir, in order.
WalkFiles(dir) == SelectSeq(Files, LAMBDA f : Under(dir, f))

\* kzip's AddFile: the digest of the file's content (one content per file).
Digest(f) == "sha256(" \o f \o ")"

removeProjectRoot(path, root) ==
    IF Len(path) >= Len(root) /\ SubSeq(path, 1, Len(root)) = root
    THEN SubSeq(path, Len(root) + 1, Len(path))
    ELSE path

\* main, lines 190-192: the project root gets a trailing slash.
NormalizeRoot(root) ==
    IF SubSeq(root, Len(root), Len(root)) # "/" THEN root \o "/" ELSE root

FileInput(path, digest) ==
    [VName |-> [Corpus |-> "fuchsia", Language |-> "rust", Path |-> path],
     Info  |-> [Path |-> path, Digest |-> digest]]

\* An exclusion that matches whole path elements only.
ExcludedAtBoundary(path, excl) ==
    \E k \in DOMAIN excl : path = excl[k] \/ HasPrefix(path, excl[k] \o "/")

\* Lines 79-83: the path has one of the exclude directories as a prefix.
Excluded(path, excl) == \E k \in DOMAIN excl : HasPrefix(path, excl[k])

\* The walk callback on one regular file: its error, and what it appends to
\* source_files and to *required_inputs (the path is that of the input).
WalkFn(path, excl, root, unread) ==
    IF Excluded(path, excl) THEN [failed |-> FALSE, added |-> <<>>]
    ELSE IF Ext(path) # ".rs" THEN [failed |-> FALSE, added |-> <<>>]
    ELSE IF path \in unread THEN [failed |-> TRUE, added |-> <<>>]
    ELSE [failed |-> FALSE,
          added  |-> <<FileInput(removeProjectRoot(path, root), Digest(path))>>]

\* vfs.Walk over the files of one root, from the k-th on: what the callback
\* appends until the walk ends, which it does at the callback's first error.
RECURSIVE WalkFrom(_, _, _, _, _)
WalkFrom(files, k, excl, root, unread) ==
    IF k > Len(files) THEN <<>>
    ELSE LET r == WalkFn(files[k], excl, root, unread)
         IN  IF r.failed THEN <<>>
             ELSE r.added \o WalkFrom(files, k + 1, excl, root, unread)

\* vfs.Walk(ctx, include_dir, fn): a root that cannot be stat'ed reaches the
\* callback as an error, which the callback returns; nothing is appended.
Walk(dir, excl, root, unread) ==
    IF ~DirExists(dir) THEN <<>>
    ELSE CHOOSE out \in {WalkFrom(files, 1, excl, root, unread) :
                             files \in {WalkFiles(dir)}} : TRUE

\* The loop over include_dirs, from the k-th on: the error of a walk is
\* dropped (`continue`), what it appended stays.
RECURSIVE WalkAll(_, _, _, _, _)
WalkAll(incl, k, excl, root, unread) ==
    IF k > Len(incl) THEN <<>>
    ELSE Walk(incl[k], excl, root, unread) \o WalkAll(incl, k + 1, excl, root, unread)

\* getSourceFiles: the paths collected, the caller's list with the inputs
\* appended, and the returned error, which is nil on every path (line 124).
getSourceFiles(incl, excl, root, reqIn, unread) ==
    CHOOSE out \in {[source_files    |-> [k \in DOMAIN added |-> added[k].Info.Path],
                     required_inputs |-> reqIn \o added,
                     err             |-> FALSE] :
                        added \in {WalkAll(incl, 1, excl, root, unread)}} : TRUE

---------------------------------------------------------------------------
(* getTransitiveDependencies *)

\* A traversal that forgets to mark the start crate as visited.
SeedVisitedNone(crateId) == {}

\* Lines 153-155: the visited set is seeded with the start crate.
SeedVisited(crateId) == {crateId}

\* Lines 161-167: the loop over the direct dependencies of the dequeued crate.
RECURSIVE VisitDeps(_, _, _, _)
VisitDeps(deps, k, q, v) ==
    IF k > Len(deps) THEN [queue |-> q, visited |-> v]
    ELSE IF deps[k] \in v THEN VisitDeps(deps, k + 1, q, v)
    ELSE VisitDeps(deps, k + 1, Append(q, deps[k]), v \cup {deps[k]})

\* Lines 156-168: one iteration of `for len(queue) > 0`.
BFSIteration(q, v, deps) == VisitDeps(Lookup(deps, Head(q)), 1, Tail(q), v)

\* Lines 156-168: the whole loop; the keys of visited when the queue is empty.
RECURSIVE BFSLoop(_, _, _)
BFSLoop(q, v, deps) ==
    IF q = <<>> THEN v
    ELSE CHOOSE out \in {BFSLoop(r.queue, r.visited, deps) :
                             r \in {BFSIteration(q, v, deps)}} : TRUE

\* A collection that forgets to leave out the start crate.
CollectVisitedAll(v, crateId) == Orders(v)

\* Lines 169-175: the slices `for k := range visited` can build.
CollectVisited(v, crateId) == Orders({k \in v : k # crateId})

\* The slices a call can return.
getTransitiveDependencies(crateId, deps) ==
    CollectVisited(BFSLoop(<<crateId>>, SeedVisited(crateId), deps), crateId)

---------------------------------------------------------------------------
(* getSourceDirs *)

\* Lines 141-146: the loop over the crate's transitive dependencies.  crates[dep]
\* indexes the slice by position; past its end the Go runtime panics.
RECURSIVE AppendDepDirs(_, _, _, _, _)
AppendDepDirs(cs, deps, k, inc, exc) ==
    IF k > Len(deps) THEN [panic |-> FALSE, inc |-> inc, exc |-> exc]
    ELSE IF deps[k] >= Len(cs) THEN [panic |-> TRUE, inc |-> inc, exc |-> exc]
    ELSE LET d == cs[deps[k] + 1].Source
         IN  IF d.HasIncludeDirs
             THEN AppendDepDirs(cs, deps, k + 1, inc \o d.IncludeDirs, exc \o d.ExcludeDirs)
             ELSE AppendDepDirs(cs, deps, k + 1, inc, exc)

\* Lines 130-147: the loop over the crates.
RECURSIVE SourceDirsFrom(_, _, _, _, _)
SourceDirsFrom(cs, k, tdeps, inc, exc) ==
    IF k > Len(cs) THEN [panic |-> FALSE, inc |-> inc, exc |-> exc]
    ELSE LET id == cs[k].CrateId
             r  == AppendDepDirs(cs, Lookup(tdeps, id), 1,
                                 Lookup(inc, id) \o cs[k].Source.IncludeDirs,
                                 Lookup(exc, id) \o cs[k].Source.ExcludeDirs)
         IN  IF r.panic THEN [panic |-> TRUE, inc |-> inc, exc |-> exc]
             ELSE SourceDirsFrom(cs, k + 1, tdeps, Store(inc, id, r.inc), Store(exc, id, r.exc))

getSourceDirs(cs, tdeps) == SourceDirsFrom(cs, 1, tdeps, EmptyMap, EmptyMap)

---------------------------------------------------------------------------
(* Inputs: the manifests, graphs and directory lists the runs are drawn from *)

\* The include directory of the crate at position p of a manifest.
HomeDirs == << "/r/a", "/r/b", "/r/c" >>

Home(p) == HomeDirs[((p - 1) % Len(HomeDirs)) + 1]

\* CrateId is free of the crate's position: either the 0-based position
\* (scheme 0) or the 1-based one (scheme 1).  Ids are unique in a manifest.
IdOf(scheme, p) == IF scheme = 0 THEN p - 1 ELSE p

\* The targets of the edges that leave the crate at position p, in order.
DepsOf(edges, p) ==
    LET sel == SelectSeq(edges, LAMBDA e : e[1] = p)
    IN  [k \in 1..Len(sel) |-> sel[k][2]]

\* The crate at position decoAt (0: none) excludes the directory /r/a; with
\* decoNil it also declares no include_dirs.
MkCrate(p, scheme, edges, decoAt, decoNil) ==
    [CrateId |-> IdOf(scheme, p),
     Label   |-> "crate" \o ToString(p),
     Deps    |-> DepsOf(edges, p),
     Source  |-> [HasIncludeDirs |-> ~(p = decoAt /\ decoNil),
                  IncludeDirs    |-> IF p = decoAt /\ decoNil THEN <<>> ELSE <<Home(p)>>,
                  ExcludeDirs    |-> IF p = decoAt THEN <<"/r/a">> ELSE <<>>]]

ManifestsOf(n, schemes, decorated) ==
    {[p \in 1..n |-> MkCrate(p, sc, ed, de[1], de[2])] :
        sc \in schemes,
        ed \in SeqsUpTo((1..n) \X (0..MaxCrates), MaxEdges),
        de \in {<<0, FALSE>>} \cup (IF decorated THEN (1..n) \X BOOLEAN ELSE {})}

UnreadableChoices == {{}, {"/r/a/x.rs"}}

\* Adjacency maps over the ids in S with at most `budget` edges in all; an id
\* without edges has no entry, as in the map main builds.
RECURSIVE Adjacencies(_, _, _)
Adjacencies(S, targets, budget) ==
    IF S = {} THEN {EmptyMap}
    ELSE LET x == CHOOSE y \in S : TRUE
         IN  UNION {{IF d = <<>> THEN m ELSE Store(m, x, d) :
                        m \in Adjacencies(S \ {x}, targets, budget - Len(d))} :
                    d \in SeqsUpTo(targets, budget)}

BfsIds == 0..BfsMaxId

CollectDirs == {"/r", "/r/a", "/r/b", "/r/m", "/o"}

---------------------------------------------------------------------------
(* Initial states *)

MainIdle ==
    /\ exitCode = -1
    /\ manifest = <<>>
    /\ crates = <<>>
    /\ transitiveDeps = EmptyMap
    /\ source_include_dirs = EmptyMap
    /\ source_exclude_dirs = EmptyMap
    /\ idx = 0
    /\ i = 0
    /\ units = <<>>
    /\ addFailed = {}
    /\ run = 1
    /\ prevUnits = <<>>
    /\ prevAddFailed = {}

BfsIdle ==
    /\ bfsCrate = 0
    /\ queue = <<>>
    /\ visited = {}
    /\ enqueued = <<>>
    /\ result = <<>>

CollectIdle ==
    /\ include_dirs = <<>>
    /\ exclude_dirs = <<>>
    /\ source_files = <<>>
    /\ required_inputs = <<>>
    /\ err = FALSE

\* The tool is started on a manifest and a filesystem.
InitMainOn(schemes, decorated) ==
    /\ pc = "setup"
    /\ exitCode = -1
    /\ \E n \in 0..MaxCrates : manifest \in ManifestsOf(n, schemes, decorated)
    /\ projectRoot = ""
    /\ crates = <<>>
    /\ crate_deps = EmptyMap
    /\ transitiveDeps = EmptyMap
    /\ source_include_dirs = EmptyMap
    /\ source_exclude_dirs = EmptyMap
    /\ idx = 0
    /\ i = 0
    /\ units = <<>>
    /\ addFailed = {}
    /\ run = 1
    /\ prevUnits = <<>>
    /\ prevAddFailed = {}
    /\ BfsIdle
    /\ CollectIdle

Init ==
    /\ unreadable \in UnreadableChoices
    /\ InitMainOn({0, 1}, TRUE)

\* The tool is started on a manifest whose ids are positions and whose
\* crates each include their own directory and exclude nothing.
InitPlain ==
    /\ unreadable \in UnreadableChoices
    /\ InitMainOn({0}, FALSE)

\* getTransitiveDependencies is entered: lines 153-155 have run.
InitBFS ==
    /\ pc = "bfs"
    /\ bfsCrate \in BfsIds
    /\ crate_deps \in Adjacencies(BfsIds, BfsIds, BfsMaxEdges)
    /\ queue = <<bfsCrate>>
    /\ visited = SeedVisited(bfsCrate)
    /\ enqueued = <<bfsCrate>>
    /\ result = <<>>
    /\ unreadable = {}
    /\ projectRoot = ""
    /\ MainIdle
    /\ CollectIdle

\* getSourceFiles is about to be called.
InitCollect ==
    /\ pc = "call"
    /\ include_dirs \in SeqsUpTo(CollectDirs, MaxDirs)
    /\ exclude_dirs \in SeqsUpTo(CollectDirs, MaxDirs)
    /\ unreadable \in UnreadableChoices
    /\ projectRoot = NormalizeRoot("/r")
    /\ required_inputs \in {<<>>, <<FileInput("/o/v.rs", Digest("/o/v.rs"))>>}
    /\ source_files = <<>>
    /\ err = FALSE
    /\ crate_deps = EmptyMap
    /\ MainIdle
    /\ BfsIdle

---------------------------------------------------------------------------
(* getTransitiveDependencies, step by step *)

bfsVars == <<bfsCrate, queue, visited, enqueued, result>>
collectVars == <<include_dirs, exclude_dirs, source_files, required_inputs, err>>
mainVars == <<exitCode, manifest, crates, transitiveDeps, source_include_dirs,
              source_exclude_dirs, idx, i, units, addFailed, run, prevUnits,
              prevAddFailed>>

\* One iteration of the loop of lines 156-168.
BFSStep ==
    /\ pc = "bfs"
    /\ queue # <<>>
    /\ LET r == BFSIteration(queue, visited, crate_deps)
       IN  /\ queue' = r.queue
           /\ visited' = r.visited
           /\ enqueued' = enqueued \o SubSeq(r.queue, Len(queue), Len(r.queue))
    /\ UNCHANGED <<pc, bfsCrate, result, crate_deps, unreadable, projectRoot>>
    /\ UNCHANGED mainVars
    /\ UNCHANGED collectVars

\* Lines 169-175: the queue is empty; the visited keys are collected and returned.
BFSReturn ==
    /\ pc = "bfs"
    /\ queue = <<>>
    /\ result' \in CollectVisited(visited, bfsCrate)
    /\ pc' = "returned"
    /\ UNCHANGED <<bfsCrate, queue, visited, enqueued, crate_deps, unreadable, projectRoot>>
    /\ UNCHANGED mainVars
    /\ UNCHANGED collectVars

NextBFS == BFSStep \/ BFSReturn

SpecBFS == InitBFS /\ [][NextBFS]_vars

\* The loop is sequential code: it takes its next step whenever it has one.
FairSpecBFS == SpecBFS /\ WF_vars(NextBFS)

---------------------------------------------------------------------------
(* getSourceFiles, one call *)

CallGetSourceFiles ==
    /\ pc = "call"
    /\ LET r == getSourceFiles(include_dirs, exclude_dirs, projectRoot,
                               required_inputs, unreadable)
       IN  /\ source_files' = r.source_files
           /\ required_inputs' = r.required_inputs
           /\ err' = r.err
    /\ pc' = "collected"
    /\ UNCHANGED <<include_dirs, exclude_dirs, crate_deps, unreadable, projectRoot>>
    /\ UNCHANGED mainVars
    /\ UNCHANGED bfsVars

NextCollect == CallGetSourceFiles

SpecCollect == InitCollect /\ [][NextCollect]_vars

---------------------------------------------------------------------------
(* main *)

\* Lines 235-240: the adjacency map; a crate without deps gets no entry.
RECURSIVE CrateDepsFrom(_, _, _)
CrateDepsFrom(cs, k, m) ==
    IF k > Len(cs) THEN m
    ELSE CrateDepsFrom(cs, k + 1,
             IF cs[k].Deps = <<>> THEN m
             ELSE Store(m, cs[k].CrateId, Lookup(m, cs[k].CrateId) \o cs[k].Deps))

\* Lines 243-248: the slices the calls of the loop over the crates can return,
\* one per crate from the k-th on.
RECURSIVE ClosureChoices(_, _, _)
ClosureChoices(cs, k, deps) ==
    IF k > Len(cs) THEN {<<>>}
    ELSE {<<t>> \o rest : t \in getTransitiveDependencies(cs[k].CrateId, deps),
                          rest \in ClosureChoices(cs, k + 1, deps)}

\* Lines 243-248: the map after the loop; a later crate with the same id
\* overwrites the entry of an earlier one.
TransitiveDepsMap(cs, slices) ==
    [id \in {cs[p].CrateId : p \in DOMAIN cs} |->
        slices[CHOOSE p \in DOMAIN cs :
                  /\ cs[p].CrateId = id
                  /\ \A q \in DOMAIN cs : cs[q].CrateId = id => q <= p]]

\* A driver that keeps the inputs of the first collection.
KeepInputs(inputs) == inputs

\* Line 280: the inputs of the first collection are dropped before the second.
ResetInputs(inputs) == <<>>

\* A driver that counts a crate whose AddUnit failed.
WrittenAlways(n, added) == n + 1

\* Lines 296-305: the counter after AddUnit returned.
WrittenAfter(n, added) == IF added THEN n + 1 ELSE n

CompilationUnit(crate, inputs, sources) ==
    [VName         |-> [Corpus |-> "fuchsia", Language |-> "rust", Root |-> crate.Label],
     RequiredInput |-> inputs,
     SourceFile    |-> sources]

restVars == <<bfsCrate, queue, visited, enqueued, result, include_dirs,
              exclude_dirs, source_files, required_inputs, err>>

\* Lines 179-221: arguments, project root, manifest.  Any failure exits with 1.
Setup ==
    /\ pc = "setup"
    /\ \E ok \in BOOLEAN, root \in {"/r", "/r/"} :
          IF ok
          THEN /\ projectRoot' = NormalizeRoot(root)
               /\ crates' = manifest
               /\ pc' = "deps"
               /\ UNCHANGED exitCode
          ELSE /\ pc' = "exit"
               /\ exitCode' = 1
               /\ UNCHANGED <<projectRoot, crates>>
    /\ UNCHANGED <<manifest, unreadable, crate_deps, transitiveDeps, source_include_dirs,
                   source_exclude_dirs, idx, i, units, addFailed, run, prevUnits,
                   prevAddFailed>>
    /\ UNCHANGED restVars

\* Lines 223-240: crates[0] is printed (a panic on an empty manifest), then the
\* adjacency map is built.
BuildCrateDeps ==
    /\ pc = "deps"
    /\ IF crates = <<>>
       THEN /\ pc' = "panic"
            /\ exitCode' = 2
            /\ UNCHANGED crate_deps
       ELSE /\ crate_deps' = CrateDepsFrom(crates, 1, EmptyMap)
            /\ pc' = "closures"
            /\ UNCHANGED exitCode
    /\ UNCHANGED <<manifest, unreadable, projectRoot, crates, transitiveDeps,
                   source_include_dirs, source_exclude_dirs, idx, i, units, addFailed,
                   run, prevUnits, prevAddFailed>>
    /\ UNCHANGED restVars

\* Lines 243-248.
ComputeClosures ==
    /\ pc = "closures"
    /\ \E slices \in ClosureChoices(crates, 1, crate_deps) :
          transitiveDeps' = TransitiveDepsMap(crates, slices)
    /\ pc' = "dirs"
    /\ UNCHANGED <<exitCode, manifest, unreadable, projectRoot, crates, crate_deps,
                   source_include_dirs, source_exclude_dirs, idx, i, units, addFailed,
                   run, prevUnits, prevAddFailed>>
    /\ UNCHANGED restVars

\* Line 251.
ComputeSourceDirs ==
    /\ pc = "dirs"
    /\ LET r == getSourceDirs(crates, transitiveDeps)
       IN  IF r.panic
           THEN /\ pc' = "panic"
                /\ exitCode' = 2
                /\ UNCHANGED <<source_include_dirs, source_exclude_dirs>>
           ELSE /\ source_include_dirs' = r.inc
                /\ source_exclude_dirs' = r.exc
                /\ pc' = "writer"
                /\ UNCHANGED exitCode
    /\ UNCHANGED <<manifest, unreadable, projectRoot, crates, crate_deps, transitiveDeps,
                   idx, i, units, addFailed, run, prevUnits, prevAddFailed>>
    /\ UNCHANGED restVars

\* Lines 253-267: the output is created anew and the writer opened, or exit 1.
CreateWriter ==
    /\ pc = "writer"
    /\ \E ok \in BOOLEAN :
          IF ok
          THEN /\ pc' = "loop"
               /\ idx' = 1
               /\ i' = 0
               /\ units' = <<>>
               /\ UNCHANGED exitCode
          ELSE /\ pc' = "exit"
               /\ exitCode' = 1
               /\ UNCHANGED <<idx, i, units>>
    /\ UNCHANGED <<manifest, unreadable, projectRoot, crates, crate_deps, transitiveDeps,
                   source_include_dirs, source_exclude_dirs, addFailed, run, prevUnits,
                   prevAddFailed>>
    /\ UNCHANGED restVars

\* Lines 268-306: one iteration of the loop over the crates.  added is whether
\* kzip's AddUnit succeeds; own and all are the results of the two calls of
\* getSourceFiles (lines 274 and 281).
ProcessCrate ==
    /\ pc = "loop"
    /\ idx <= Len(crates)
    /\ \E added \in BOOLEAN, crate \in {crates[idx]} :
        \E own \in {getSourceFiles(crate.Source.IncludeDirs, crate.Source.ExcludeDirs,
                                   projectRoot, <<>>, unreadable)} :
        \E all \in {getSourceFiles(Lookup(source_include_dirs, crate.CrateId),
                                   Lookup(source_exclude_dirs, crate.CrateId),
                                   projectRoot, ResetInputs(own.required_inputs),
                                   unreadable)} :
              IF own.err \/ all.err
              THEN UNCHANGED <<i, units, addFailed>>
              ELSE /\ i' = WrittenAfter(i, added)
                   /\ units' = IF added
                               THEN Append(units, CompilationUnit(crate, all.required_inputs,
                                                                  own.source_files))
                               ELSE units
                   /\ addFailed' = IF added THEN addFailed ELSE addFailed \cup {idx}
    /\ idx' = idx + 1
    /\ UNCHANGED <<pc, exitCode, manifest, unreadable, projectRoot, crates, crate_deps,
                   transitiveDeps, source_include_dirs, source_exclude_dirs, run,
                   prevUnits, prevAddFailed>>
    /\ UNCHANGED restVars

\* Lines 308-312: the loop is over; the writer is closed and main returns.
Finish ==
    /\ pc = "loop"
    /\ idx > Len(crates)
    /\ pc' = "done"
    /\ exitCode' = 0
    /\ UNCHANGED <<manifest, unreadable, projectRoot, crates, crate_deps, transitiveDeps,
                   source_include_dirs, source_exclude_dirs, idx, i, units, addFailed,
                   run, prevUnits, prevAddFailed>>
    /\ UNCHANGED restVars

\* The tool is started again on the same manifest and the same filesystem.
Rerun ==
    /\ pc = "done"
    /\ run = 1
    /\ run' = 2
    /\ prevUnits' = units
    /\ prevAddFailed' = addFailed
    /\ pc' = "setup"
    /\ exitCode' = -1
    /\ projectRoot' = ""
    /\ crates' = <<>>
    /\ crate_deps' = EmptyMap
    /\ transitiveDeps' = EmptyMap
    /\ source_include_dirs' = EmptyMap
    /\ source_exclude_dirs' = EmptyMap
    /\ idx' = 0
    /\ i' = 0
    /\ addFailed' = {}
    /\ UNCHANGED <<manifest, unreadable, units>>
    /\ UNCHANGED restVars

Next ==
    \/ Setup
    \/ BuildCrateDeps
    \/ ComputeClosures
    \/ ComputeSourceDirs
    \/ CreateWriter
    \/ ProcessCrate
    \/ Finish

Spec == Init /\ [][Next]_vars

SpecPlain == InitPlain /\ [][Next]_vars

\* main is sequential code: it takes its next step whenever it has one.
FairSpecPlain == SpecPlain /\ WF_vars(Next)

NextTwoRuns == Next \/ Rerun

SpecTwoRuns == InitPlain /\ [][NextTwoRuns]_vars

---------------------------------------------------------------------------
(* Properties of getTransitiveDependencies *)

\* The dependency edges of an adjacency map.
EdgesOf(deps) == UNION {{<<x, deps[x][k]>> : k \in DOMAIN deps[x]} : x \in DOMAIN deps}

\* The least set that contains S and is closed under the edges E.
RECURSIVE ClosedUnder(_, _)
ClosedUnder(S, E) ==
    LET T == S \cup {e[2] : e \in {d \in E : d[1] \in S}}
    IN  IF T = S THEN S ELSE ClosedUnder(T, E)

\* The ids reachable from c by one or more edges.
ReachableFrom(c, deps) ==
    ClosedUnder({e[2] : e \in {d \in EdgesOf(deps) : d[1] = c}}, EdgesOf(deps))

\* C1: what getTransitiveDependencies(C) returns is, as a set, exactly the ids
\* reachable from C by one or more dependency edges, minus C; C is not in it and
\* no id is in it twice.  Every order the map iteration can take gives this set,
\* so running the traversal again gives the same set.
C1_ClosureIsReachableSet ==
    pc = "returned" =>
        /\ Range(result) = ReachableFrom(bfsCrate, crate_deps) \ {bfsCrate}
        /\ bfsCrate \notin Range(result)
        /\ NoDuplicates(result)

\* A returned closure of two crates in a graph with a cycle through C and a
\* crate without adjacency entry.
C1_Witness ==
    /\ pc = "returned"
    /\ bfsCrate \in ReachableFrom(bfsCrate, crate_deps)
    /\ Len(result) = 2
    /\ \E x \in Range(result) : x \notin DOMAIN crate_deps

\* C2: the breadth-first loop terminates on every finite graph, cyclic or not:
\* no id is ever appended to the queue twice, and the call returns.
C2_TraversalTerminates ==
    /\ [](NoDuplicates(enqueued))
    /\ <>(pc = "returned")

\* A returned traversal of a cycle through all three crates.
C2_Witness ==
    /\ pc = "returned"
    /\ Len(enqueued) = 3
    /\ \A x \in Range(enqueued) : x \in ReachableFrom(x, crate_deps)

---------------------------------------------------------------------------
(* Properties of getSourceFiles *)

\* The path has dir as a literal string prefix.
LiteralPrefix(path, dir) ==
    /\ Len(path) >= Len(dir)
    /\ \A k \in 1..Len(dir) : SubSeq(path, k, k) = SubSeq(dir, k, k)

EndsInRs(path) == Len(path) >= 3 /\ SubSeq(path, Len(path) - 2, Len(path)) = ".rs"

\* The path recorded for file f under the root "/r/".
Recorded(f) == IF LiteralPrefix(f, "/r/") THEN SubSeq(f, 4, Len(f)) ELSE f

\* C6: a call of getSourceFiles neither returns nor appends to the required
\* inputs a file whose walked path has one of the call's exclude directories as
\* a literal prefix, nor a file that does not end in .rs.
C6_ExcludedNeverCollected ==
    [][pc = "call" =>
        \A f \in FileSet :
            ((\E k \in DOMAIN exclude_dirs : LiteralPrefix(f, exclude_dirs[k])) \/ ~EndsInRs(f))
            => /\ Recorded(f) \notin Range(source_files')
               /\ \A k \in (Len(required_inputs) + 1)..Len(required_inputs') :
                     required_inputs'[k].Info.Path # Recorded(f)]_vars

\* A call that collected a file and skipped /r/ab/z.rs, found under the include
\* directory /r and excluded by /r/a, of which it is no path-wise descendant.
C6_Witness ==
    /\ pc = "collected"
    /\ "/r" \in Range(include_dirs)
    /\ exclude_dirs = <<"/r/a">>
    /\ "b/w.rs" \in Range(source_files)
    /\ "ab/z.rs" \notin Range(source_files)

---------------------------------------------------------------------------
(* Properties of main *)

CrateLabelled(label) == CHOOSE c \in Range(crates) : c.Label = label

PathsOf(inputs) == [k \in DOMAIN inputs |-> inputs[k].Info.Path]

\* A collection over these directories meets a file that cannot be opened.
MeetsUnreadable(incl, excl) ==
    \E f \in unreadable, k \in DOMAIN incl :
        /\ LiteralPrefix(f, incl[k] \o "/")
        /\ EndsInRs(f)
        /\ ~\E e \in DOMAIN excl : LiteralPrefix(f, excl[e])

\* C3: a discovered .rs file that cannot be opened fails the collection call,
\* and the driver emits no compilation unit for the crate.
C3_OpenFailureSkipsCrate ==
    \A k \in DOMAIN units :
        LET c == CrateLabelled(units[k].VName.Root)
        IN  /\ ~MeetsUnreadable(c.Source.IncludeDirs, c.Source.ExcludeDirs)
            /\ ~MeetsUnreadable(source_include_dirs[c.CrateId], source_exclude_dirs[c.CrateId])

IdsByPosition(cs) == \A p \in DOMAIN cs : cs[p].CrateId = p - 1

HasDanglingDep(cs) ==
    \E p \in DOMAIN cs :
        \E k \in DOMAIN cs[p].Deps :
            \A q \in DOMAIN cs : cs[q].CrateId # cs[p].Deps[k]

\* C4: a dependency edge to an id that no crate carries is tolerated: closure
\* and aggregation complete without a fault.
C4_DanglingDepTolerated ==
    (IdsByPosition(crates) /\ HasDanglingDep(crates)) => pc # "panic"

\* The example of the specification: A without deps, B depending on A.
ExampleA ==
    [CrateId |-> 0, Label |-> "crate1", Deps |-> <<>>,
     Source |-> [HasIncludeDirs |-> TRUE, IncludeDirs |-> <<"/r/a">>, ExcludeDirs |-> <<>>]]

ExampleB ==
    [CrateId |-> 1, Label |-> "crate2", Deps |-> <<0>>,
     Source |-> [HasIncludeDirs |-> TRUE, IncludeDirs |-> <<"/r/b">>, ExcludeDirs |-> <<>>]]

C7_RunsAgree ==
    (run = 2 /\ pc = "done" /\ addFailed = prevAddFailed) => units = prevUnits

\* The units written are those of the crates whose AddUnit succeeded, in
\* manifest order.
RECURSIVE LabelsWritten(_, _)
LabelsWritten(k, failed) ==
    IF k > Len(crates) THEN <<>>
    ELSE (IF k \in failed THEN <<>> ELSE <<crates[k].Label>>) \o LabelsWritten(k + 1, failed)

\* C8: once the writer exists, the crates are processed one at a time in
\* manifest order; a failed AddUnit skips that crate only; the counter is the
\* number of crates whose AddUnit succeeded; the run ends with exit code 0.
C8_PerCrateFailuresRecoverable ==
    /\ [](pc = "done" =>
            /\ exitCode = 0
            /\ idx = Len(crates) + 1
            /\ i = Len(crates) - Cardinality(addFailed)
            /\ [k \in DOMAIN units |-> units[k].VName.Root] = LabelsWritten(1, addFailed))
    /\ [][pc = "loop" => \/ pc' = "loop" /\ idx' = idx + 1
                         \/ pc' = "done" /\ idx = Len(crates) + 1]_vars
    /\ (pc = "loop") ~> (pc = "done" /\ exitCode = 0)

\* A finished run in which AddUnit failed for the first crate and succeeded
\* for a later one.
C8_Witness ==
    /\ pc = "done"
    /\ 1 \in addFailed
    /\ Len(crates) >= 2
    /\ i >= 1

\* The directories the crates with these ids declare, in this order; an id no
\* crate carries contributes none.
RECURSIVE DirsOfIds(_, _, _)
DirsOfIds(ids, k, incl) ==
    IF k > Len(ids) THEN <<>>
    ELSE LET cs == {c \in Range(crates) : c.CrateId = ids[k]}
             ds == IF cs = {} THEN <<>>
                   ELSE IF incl THEN (CHOOSE c \in cs : TRUE).Source.IncludeDirs
                   ELSE (CHOOSE c \in cs : TRUE).Source.ExcludeDirs
         IN  ds \o DirsOfIds(ids, k + 1, incl)

\* C9: the list getSourceDirs records for crate C is C's own directories
\* followed by those of exactly the crates whose CrateId is in C's closure
\* (in some order of the closure); without deps it is C's own directories.
C9_AggregatedDirs ==
    pc \in {"writer", "loop", "done"} =>
        \A p \in DOMAIN crates :
            LET c == crates[p]
                t == transitiveDeps[c.CrateId]
            IN  /\ \E o \in Orders(Range(t)) :
                      /\ source_include_dirs[c.CrateId] =
                            c.Source.IncludeDirs \o DirsOfIds(o, 1, TRUE)
                      /\ source_exclude_dirs[c.CrateId] =
                            c.Source.ExcludeDirs \o DirsOfIds(o, 1, FALSE)
                /\ c.Deps = <<>> =>
                      /\ source_include_dirs[c.CrateId] = c.Source.IncludeDirs
                      /\ source_exclude_dirs[c.CrateId] = c.Source.ExcludeDirs

\* C10: every path of SourceFile is the path of a RequiredInput of the unit.
C10_SourcesAreInputs ==
    \A k \in DOMAIN units :
        \A q \in DOMAIN units[k].SourceFile :
            \E r \in DOMAIN units[k].RequiredInput :
                units[k].RequiredInput[r].Info.Path = units[k].SourceFile[q]

===========================================================================
